---- MODULE Spec2Model ----
(***************************************************************************)
(* Model of adapters/repos/db/vector/hnsw/visited/list_set.go: ListSet, a  *)
(* reusable visited-list whose slot 0 holds the marker (version) and whose *)
(* slots 1.. hold one uint8 stamp per node id.                             *)
(*                                                                         *)
(* Representation of the Go types:                                         *)
(*  - []uint8 is a sequence of 0..255; Go index i is TLA+ index i+1; the   *)
(*    nil slice and the empty slice are both << >> (the code only takes    *)
(*    len() and indexes, which do not tell them apart).                    *)
(*  - uint64 values are kept as the residue mod 2^64 that is closest to    *)
(*    zero: v in 0..2^31-1 stands for itself and -k stands for 2^64 - k.   *)
(*    In this view 64-bit wrapping addition of small constants is integer  *)
(*    addition, and only the order has to be translated (U64Less).  The    *)
(*    model draws ids from both ends of the uint64 range.                  *)
(***************************************************************************)
EXTENDS Integers, Sequences, FiniteSets

VARIABLES set, freed, panicked, last, resetCount, usedAfterFree, visitedSince,
          pair, agg, aggLog, del

\* the single instance of Spec
listVars == <<set, freed, panicked, last, resetCount, usedAfterFree, visitedSince>>

\* two handles on ListSet values, used by two callers (SpecPair)
pairVars == <<pair>>

\* one dateAggregator and the record of what was added to it (SpecAgg)
aggVars == <<agg, aggLog>>

\* one DeleteObjectReference request (SpecDel)
delVars == <<del>>

vars == <<listVars, pairVars, aggVars, delVars>>

\* ---------------------------------------------------------------- bounds
\* NewList sizes tried: 0..MaxSize
MaxSize == 1
\* small node ids tried: 0..MaxNode
MaxNode == 0
\* the caller visits nodes only while the marker is at most EarlyEpochs or
\* has its last value before the overflow (Reset is never restricted)
EarlyEpochs == 1
\* calls made on an instance after its Free (the design forbids them all)
MaxUseAfterFree == 2
\* Reset calls made in a run of two callers
MaxPairResets == 2
\* timestamps added to an aggregator have epoch nanoseconds in
\* -MaxNano..MaxNano, rows have counts 0..MaxRowCount, and at most MaxAdds
\* AddTimestamp / addRow calls are made
MaxNano == 1
MaxRowCount == 2
MaxAdds == 3
\* reference lists of a property have at most MaxRefs entries
MaxRefs == 2

\* ------------------------------------------------------- program constants
\* number of values of the uint8 marker / stamps
MarkerMod == 256
\* the margin added on resize: make([]uint8, node+1024)
GrowthMargin == 1024

NoPanic == "none"
IndexOutOfRange == "index out of range"
LenOutOfRange == "makeslice: len out of range"

\* ------------------------------------------------------------ uint64 view
\* math.MaxUint64 = 2^64 - 1
MaxUint64 == -1

\* unsigned order a < b on the residues described above
U64Less(a, b) == IF (a < 0) = (b < 0) THEN a < b ELSE b < 0

\* node ids handed to Visit and Visited
SmallNodes == 0 .. MaxNode
EdgeNodes == {GrowthMargin - 2}
HugeNodes == {MaxUint64, MaxUint64 - 1, MaxUint64 - (GrowthMargin - 1), MaxUint64 - GrowthMargin}
Nodes == SmallNodes \cup EdgeNodes \cup HugeNodes

VisitEpochs == (0 .. EarlyEpochs) \cup {MarkerMod - 1}

\* ------------------------------------------------------------ Go builtins
\* make([]uint8, n): n zero bytes (\o turns the function into a sequence
\* value); a length that is negative as an int (n >= 2^63 as uint64)
\* panics, which callers test with MakeOk
MakeOk(n) == n >= 0
MakeSlice(n) == [i \in 1 .. n |-> 0] \o << >>

\* copy(dst, src): the first min(len(dst), len(src)) elements
Copy(dst, src) ==
    IF Len(src) >= Len(dst)
    THEN SubSeq(src, 1, Len(dst))
    ELSE src \o SubSeq(dst, Len(src) + 1, Len(dst))

\* s[i] is a valid index expression (i is a uint64 or int index)
InRange(s, i) == i >= 0 /\ i < Len(s)

\* ------------------------------------------------------------- ListSet
\* func (l ListSet) Len() uint64 { return uint64(len(l.set)) - 1 }
ListLen(s) == Len(s) - 1

\* NewList without the marker initialisation (set[0] = 1 left out)
NewListNoInit(size) == MakeSlice(size + 1)

\* func NewList(size int) ListSet
NewList(size) == [MakeSlice(size + 1) EXCEPT ![1] = 1]

\* the marker l.set[0]
Marker(s) == s[1]

\* Visited comparing the stamp with zero instead of with the marker
VisitedValueNonZero(s, node) == U64Less(node, ListLen(s)) /\ s[node + 2] # 0

\* return node < l.Len() && l.set[node+1] == l.set[0]
VisitedValue(s, node) == U64Less(node, ListLen(s)) /\ s[node + 2] = s[1]

\* Visited panics when the bounds test passes but the slot does not exist
VisitedPanics(s, node) == U64Less(node, ListLen(s)) /\ ~ (InRange(s, node + 1) /\ InRange(s, 0))

\* Visit that reallocates on every call
VisitGrowsAlways(s, node) == TRUE

\* if node >= l.Len() { // resize
VisitGrows(s, node) == ~ U64Less(node, ListLen(s))

\* the slice after the resize branch of Visit
Resized(s, node) == IF VisitGrows(s, node) THEN Copy(MakeSlice(node + GrowthMargin), s) ELSE s

\* l.set[0]++ on a uint8
ResetInc(s) == [s EXCEPT ![1] = (s[1] + 1) % MarkerMod]

\* if l.set[0] == 0 { // if overflowed
ResetWraps(s) == ResetInc(s)[1] = 0

\* for i := range l.set { l.set[i] = 0 }
ZeroAll(s) == MakeSlice(Len(s))

\* Reset that restarts the marker on overflow but keeps the stamps
ResetValueNoClear(s) == IF ResetWraps(s) THEN [ResetInc(s) EXCEPT ![1] = 1] ELSE ResetInc(s)

\* Reset that zeroes on overflow but leaves the marker at 0
ResetValueNoRestart(s) == IF ResetWraps(s) THEN ZeroAll(ResetInc(s)) ELSE ResetInc(s)

\* Reset that zeroes the stamps on every call
ResetValueAlwaysClear(s) == [ZeroAll(s) EXCEPT ![1] = IF ResetWraps(s) THEN 1 ELSE ResetInc(s)[1]]

\* the slice after Reset, for a slice that has a marker slot
ResetValue(s) == IF ResetWraps(s) THEN [ZeroAll(ResetInc(s)) EXCEPT ![1] = 1] ELSE ResetInc(s)

\* input bound: the epochs in which the caller visits nodes
VisitAllowed(s) == IF Len(s) = 0 THEN TRUE ELSE Marker(s) \in VisitEpochs

\* value of the variables a specification does not use
Idle == [mode |-> "idle"]

\* a call is made: the instance is usable, and calls after Free are counted
Call ==
    /\ UNCHANGED <<pairVars, aggVars, delVars>>
    /\ panicked = NoPanic
    /\ usedAfterFree < MaxUseAfterFree
    /\ usedAfterFree' = IF freed THEN usedAfterFree + 1 ELSE usedAfterFree

Rec(op, node, result) == [op |-> op, node |-> node, result |-> result]

Init ==
    \E size \in 0 .. MaxSize :
        /\ set = NewList(size)
        /\ freed = FALSE
        /\ panicked = NoPanic
        /\ last = Rec("NewList", size, FALSE)
        /\ resetCount = 0
        /\ usedAfterFree = 0
        /\ visitedSince = {}
        /\ pair = Idle
        /\ agg = Idle
        /\ aggLog = Idle
        /\ del = Idle

Visit(node) ==
    /\ Call
    /\ VisitAllowed(set)
    /\ last' = Rec("Visit", node, FALSE)
    /\ UNCHANGED <<freed, resetCount>>
    /\ IF ~ U64Less(node, ListLen(set)) /\ ~ MakeOk(node + GrowthMargin)
       THEN /\ panicked' = LenOutOfRange
            /\ UNCHANGED set
       ELSE LET s1 == Resized(set, node)
            IN  IF InRange(s1, node + 1) /\ InRange(s1, 0)
                THEN /\ set' = [s1 EXCEPT ![node + 2] = s1[1]]
                     /\ UNCHANGED panicked
                ELSE /\ set' = s1
                     /\ panicked' = IndexOutOfRange
    /\ visitedSince' = IF panicked' = NoPanic THEN visitedSince \cup {node} ELSE visitedSince

Visited(node) ==
    /\ Call
    /\ UNCHANGED <<set, freed, resetCount, visitedSince>>
    /\ IF VisitedPanics(set, node)
       THEN /\ panicked' = IndexOutOfRange
            /\ last' = Rec("Visited", node, FALSE)
       ELSE /\ UNCHANGED panicked
            /\ last' = Rec("Visited", node, VisitedValue(set, node))

Reset ==
    /\ Call
    /\ last' = Rec("Reset", 0, FALSE)
    /\ UNCHANGED freed
    /\ IF ~ InRange(set, 0)
       THEN /\ panicked' = IndexOutOfRange
            /\ UNCHANGED <<set, resetCount>>
       ELSE /\ set' = ResetValue(set)
            /\ resetCount' = IF ResetWraps(set) THEN 0 ELSE resetCount + 1
            /\ UNCHANGED panicked
    /\ visitedSince' = IF panicked' = NoPanic THEN {} ELSE visitedSince

LenCall ==
    /\ Call
    /\ last' = Rec("Len", ListLen(set), FALSE)
    /\ UNCHANGED <<set, freed, panicked, resetCount, visitedSince>>

Free ==
    /\ Call
    /\ set' = << >>
    /\ freed' = TRUE
    /\ last' = Rec("Free", 0, FALSE)
    /\ resetCount' = 0
    /\ visitedSince' = {}
    /\ UNCHANGED panicked

Next ==
    \/ \E node \in Nodes : Visit(node)
    \/ \E node \in Nodes : Visited(node)
    \/ Reset
    \/ LenCall
    \/ Free

Spec == Init /\ [][Next]_vars

\* value of the variables of Spec in the other specifications
NoList ==
    /\ set = << >>
    /\ freed = FALSE
    /\ panicked = NoPanic
    /\ last = Rec("none", 0, FALSE)
    /\ resetCount = 0
    /\ usedAfterFree = 0
    /\ visitedSince = {}

\* ---------------------------------------------------- two callers
\* the panic raised by Visit(node) on slice s, NoPanic when it returns
VisitPanic(s, node) ==
    IF VisitGrows(s, node) /\ ~ MakeOk(node + GrowthMargin)
    THEN LenOutOfRange
    ELSE IF InRange(Resized(s, node), node + 1) /\ InRange(Resized(s, node), 0)
         THEN NoPanic
         ELSE IndexOutOfRange

\* the slice of the receiver after a Visit(node) that returns
VisitValue(s, node) == LET s1 == Resized(s, node) IN [s1 EXCEPT ![node + 2] = s1[1]]

\* node ids used by the two callers
PairNodes == SmallNodes

Callers == {1, 2}
Other(t) == 3 - t

\* the call before the last one: who made it and which call it was
PairCall(who, op) == [who |-> who, op |-> op]

PairRec(who, op, node, result) == [who |-> who, op |-> op, node |-> node, result |-> result]

\* Two callers A (1) and B (2) hold handles on ListSet values:
\*   "shared":  both call through a pointer to the same ListSet;
\*   "copies":  B holds a by-value copy of A's ListSet (same slice header,
\*              hence the same backing array until one of them replaces it);
\*   "private": each holds the result of its own NewList.
\* hs[t] is the slice reached through the handle of t; aliased says that
\* both handles reach the same backing array.  mine[t] is the set of ids t
\* visited since its own last Reset (not kept for copies), joint the
\* set of ids visited by anyone since the last Reset by anyone (kept for the
\* shared instance), inRange that every Visit so far was given an id below
\* Len() (kept for copies).
InitPair ==
    /\ \E mode \in {"shared", "copies", "private"}, size \in 0 .. MaxSize :
           pair = [mode |-> mode,
                   hs |-> <<NewList(size), NewList(size)>>,
                   aliased |-> (mode # "private"),
                   mine |-> <<{}, {}>>,
                   joint |-> {},
                   inRange |-> TRUE,
                   resets |-> 0,
                   prev |-> PairCall(0, "none"),
                   last |-> PairRec(0, "NewList", size, FALSE)]
    /\ NoList
    /\ agg = Idle
    /\ aggLog = Idle
    /\ del = Idle

\* the slices reached through the two handles after caller t stored new
\* through its handle; replaced says that the call assigned l.set
Store(t, new, replaced) ==
    IF pair.mode = "shared" \/ (pair.aliased /\ ~ replaced)
    THEN <<new, new>>
    ELSE [pair.hs EXCEPT ![t] = new]

PairVisit(t, node) ==
    /\ VisitPanic(pair.hs[t], node) = NoPanic
    /\ pair' = [pair EXCEPT
                  !.hs = Store(t, VisitValue(pair.hs[t], node), VisitGrows(pair.hs[t], node)),
                  !.aliased = pair.mode = "shared" \/ (pair.aliased /\ ~ VisitGrows(pair.hs[t], node)),
                  !.mine = IF pair.mode = "copies" THEN @ ELSE [pair.mine EXCEPT ![t] = @ \cup {node}],
                  !.joint = IF pair.mode = "shared" THEN @ \cup {node} ELSE @,
                  !.inRange = IF pair.mode = "copies" THEN @ /\ U64Less(node, ListLen(pair.hs[t])) ELSE @,
                  !.prev = PairCall(pair.last.who, pair.last.op),
                  !.last = PairRec(t, "Visit", node, FALSE)]
    /\ UNCHANGED <<listVars, aggVars, delVars>>

PairVisited(t, node) ==
    /\ ~ VisitedPanics(pair.hs[t], node)
    /\ pair' = [pair EXCEPT
                  !.prev = PairCall(pair.last.who, pair.last.op),
                  !.last = PairRec(t, "Visited", node, VisitedValue(pair.hs[t], node))]
    /\ UNCHANGED <<listVars, aggVars, delVars>>

PairReset(t) ==
    /\ pair.resets < MaxPairResets
    /\ InRange(pair.hs[t], 0)
    /\ pair' = [pair EXCEPT
                  !.hs = Store(t, ResetValue(pair.hs[t]), FALSE),
                  !.mine = [pair.mine EXCEPT ![t] = {}],
                  !.joint = {},
                  !.resets = @ + 1,
                  !.prev = PairCall(pair.last.who, pair.last.op),
                  !.last = PairRec(t, "Reset", 0, FALSE)]
    /\ UNCHANGED <<listVars, aggVars, delVars>>

NextPair ==
    \/ \E t \in Callers, node \in PairNodes : PairVisit(t, node)
    \/ \E t \in Callers, node \in PairNodes : PairVisited(t, node)
    \/ \E t \in Callers : PairReset(t)

SpecPair == InitPair /\ [][NextPair]_vars

\* ------------------------------------------------------ dateAggregator
\* math.MaxInt64, held as the largest integer of the checker; it is only
\* compared with epoch values
MaxInt64 == 2147483647

\* An RFC 3339 string is held as the instant it denotes and the zone it is
\* written in: two strings with different zones can denote one instant.
\* The empty string and a string that does not parse are tokens of their own.
Zones == {"Z", "+01:00"}
Str(nano, zone) == [nano |-> nano, zone |-> zone]
EmptyString == Str(0, "")
Malformed == Str(0, "malformed")

Nanos == (-MaxNano) .. MaxNano

\* time.Parse(time.RFC3339Nano, s) succeeds
ParseOk(s) == s.zone \in Zones

\* t.UnixNano() of the parsed time
UnixNano(s) == s.nano

\* type timestamp struct { epochNano int64; rfc3339 string }
Timestamp(epochNano, rfc3339) == [epochNano |-> epochNano, rfc3339 |-> rfc3339]

\* func newTimestamp(epochNano int64) timestamp: formatted in UTC
newTimestamp(epochNano) == Timestamp(epochNano, Str(epochNano, "Z"))

\* the zero value of timestamp
ZeroTimestamp == Timestamp(0, EmptyString)

\* func newDateAggregator() *dateAggregator
newDateAggregator ==
    [count |-> 0,
     maxCount |-> 0,
     min |-> Timestamp(MaxInt64, EmptyString),
     max |-> ZeroTimestamp,
     mode |-> ZeroTimestamp,
     pairs |-> << >>,
     valueCounter |-> << >>]

\* a.valueCounter[ts], 0 for a missing key
CounterAt(a, ts) == IF ts \in DOMAIN a.valueCounter THEN a.valueCounter[ts] ELSE 0

\* a.valueCounter[ts] = count
CounterPut(a, ts, count) ==
    [k \in DOMAIN a.valueCounter \cup {ts} |-> IF k = ts THEN count ELSE a.valueCounter[k]]

\* the aggregator after AddTimestamp(rfc3339) with a string that parses
AddTimestampValue(a, rfc3339) ==
    LET ts == Timestamp(UnixNano(rfc3339), rfc3339)
    IN  [a EXCEPT
           !.count = a.count + 1,
           !.min = IF ts.epochNano < a.min.epochNano THEN ts ELSE a.min,
           !.max = IF ts.epochNano > a.max.epochNano THEN ts ELSE a.max,
           !.valueCounter = CounterPut(a, ts, CounterAt(a, ts) + 1)]

\* the aggregator after addRow(ts, count)
addRowValue(a, ts, count) ==
    IF count = 0
    THEN a
    ELSE [a EXCEPT
            !.count = a.count + count,
            !.min = IF ts.epochNano < a.min.epochNano THEN ts ELSE a.min,
            !.max = IF ts.epochNano > a.max.epochNano THEN ts ELSE a.max,
            !.maxCount = IF count > a.maxCount THEN count ELSE a.maxCount,
            !.mode = IF count > a.maxCount THEN ts ELSE a.mode,
            !.pairs = Append(a.pairs, [value |-> ts, count |-> count])]

\* func (a *dateAggregator) Max() string
Max(a) == a.max.rfc3339

\* func (a *dateAggregator) Min() string
Min(a) == a.min.rfc3339

\* func (a *dateAggregator) Mode() string
Mode(a) == a.mode.rfc3339

\* func (a *dateAggregator) Count() int64
Count(a) == a.count

\* Median index that takes the upper middle of an even total
MedianIndexUpper(count) == count \div 2 + 1

\* the index computed at the start of Median
MedianIndex(count) == IF count % 2 = 0 THEN count \div 2 ELSE count \div 2 + 1

\* the loop of Median from pair i on, with index still to skip
RECURSIVE MedianLoop(_, _, _)
MedianLoop(pairs, i, index) ==
    IF i > Len(pairs)
    THEN ZeroTimestamp
    ELSE IF index <= pairs[i].count
         THEN pairs[i].value
         ELSE MedianLoop(pairs, i + 1, index - pairs[i].count)

\* func (a *dateAggregator) Median() string
Median(a) == MedianLoop(a.pairs, 1, MedianIndex(a.count)).rfc3339

\* aggLog records the calls: added is the set of timestamps that were added
\* (rows with count 0 add nothing), rows the sequence of <<epochNano, count>>
\* given to addRow, onlyRows that AddTimestamp was never called, calls the
\* number of calls made.
InitAgg ==
    /\ agg = newDateAggregator
    /\ aggLog = [added |-> {}, rows |-> << >>, onlyRows |-> TRUE, calls |-> 0]
    /\ NoList
    /\ pair = Idle
    /\ del = Idle

\* AddTimestamp(rfc3339); a string that does not parse returns an error and
\* changes nothing
AddTimestamp(rfc3339) ==
    /\ aggLog.calls < MaxAdds
    /\ IF ParseOk(rfc3339)
       THEN /\ agg' = AddTimestampValue(agg, rfc3339)
            /\ aggLog' = [aggLog EXCEPT
                            !.added = @ \cup {Timestamp(UnixNano(rfc3339), rfc3339)},
                            !.onlyRows = FALSE,
                            !.calls = @ + 1]
       ELSE /\ agg' = agg
            /\ aggLog' = [aggLog EXCEPT !.calls = @ + 1]
    /\ UNCHANGED <<listVars, pairVars, delVars>>

\* AddTimestampRow(b, count) for bytes b that decode to nsec: addRow of
\* newTimestamp(nsec)
AddTimestampRow(nsec, count) ==
    /\ aggLog.calls < MaxAdds
    /\ agg' = addRowValue(agg, newTimestamp(nsec), count)
    /\ aggLog' = [aggLog EXCEPT
                    !.added = IF count = 0 THEN @ ELSE @ \cup {newTimestamp(nsec)},
                    !.rows = Append(@, <<nsec, count>>),
                    !.calls = @ + 1]
    /\ UNCHANGED <<listVars, pairVars, delVars>>

NextAgg ==
    \/ \E nano \in Nanos \cup {MaxInt64}, zone \in Zones : AddTimestamp(Str(nano, zone))
    \/ AddTimestamp(Malformed)
    \/ \E nsec \in Nanos, count \in 0 .. MaxRowCount : AddTimestampRow(nsec, count)

SpecAgg == InitAgg /\ [][NextAgg]_vars

\* ------------------------------------------- DeleteObjectReference
\* a reference is held as its Beacon, the only field the code compares
Beacons == {"b1", "b2"}

\* models.MultipleRef values with at most n entries
RefLists(n) == UNION {[1 .. k -> Beacons] : k \in 0 .. n}

\* what obj.Properties holds for the property:
\*   "noProperties" obj.Properties is nil, no map at all
\*   "nilMap"    the properties map is a nil map
\*   "absent"    the map has no entry for the property
\*   "nilValue"  the entry is nil
\*   "malformed" the entry is not a models.MultipleRef
\*   "list"      the entry is a models.MultipleRef
Kinds == {"noProperties", "nilMap", "absent", "nilValue", "malformed", "list"}

\* the loop of removeReference from entry i on: newrefs after appending the
\* entries whose Beacon differs
RECURSIVE KeepOthers(_, _, _, _)
KeepOthers(refs, i, beacon, newrefs) ==
    IF i > Len(refs)
    THEN newrefs
    ELSE KeepOthers(refs, i + 1, beacon,
                    IF refs[i] # beacon THEN Append(newrefs, refs[i]) ELSE newrefs)

\* removeReference that stops after the first entry it drops
RECURSIVE KeepAfterFirst(_, _, _, _)
KeepAfterFirst(refs, i, beacon, newrefs) ==
    IF i > Len(refs)
    THEN newrefs
    ELSE IF refs[i] # beacon
         THEN KeepAfterFirst(refs, i + 1, beacon, Append(newrefs, refs[i]))
         ELSE newrefs \o SubSeq(refs, i + 1, Len(refs))

removeReferenceFirstOnly(kind, refs, beacon) ==
    IF kind = "noProperties"
    THEN [panic |-> TRUE, ok |-> FALSE, errmsg |-> "", kind |-> kind, refs |-> refs]
    ELSE IF kind \in {"nilMap", "absent", "nilValue"}
    THEN [panic |-> FALSE, ok |-> FALSE, errmsg |-> "", kind |-> kind, refs |-> refs]
    ELSE IF kind # "list"
    THEN [panic |-> FALSE, ok |-> FALSE, errmsg |-> "source list is not well formed",
          kind |-> kind, refs |-> refs]
    ELSE [panic |-> FALSE,
          ok |-> Len(refs) # Len(KeepAfterFirst(refs, 1, beacon, << >>)),
          errmsg |-> "",
          kind |-> "list",
          refs |-> KeepAfterFirst(refs, 1, beacon, << >>)]

\* func removeReference(obj, prop, ref) (ok bool, errmsg string), with the
\* property of obj after the call; the type assertion on obj.Properties
\* panics when it holds no map
removeReference(kind, refs, beacon) ==
    IF kind = "noProperties"
    THEN [panic |-> TRUE, ok |-> FALSE, errmsg |-> "", kind |-> kind, refs |-> refs]
    ELSE IF kind \in {"nilMap", "absent", "nilValue"}
    THEN [panic |-> FALSE, ok |-> FALSE, errmsg |-> "", kind |-> kind, refs |-> refs]
    ELSE IF kind # "list"
    THEN [panic |-> FALSE, ok |-> FALSE, errmsg |-> "source list is not well formed",
          kind |-> kind, refs |-> refs]
    ELSE [panic |-> FALSE,
          ok |-> Len(refs) # Len(KeepOthers(refs, 1, beacon, << >>)),
          errmsg |-> "",
          kind |-> "list",
          refs |-> KeepOthers(refs, 1, beacon, << >>)]

\* the loop of removeRef from entry i on: the first entry with the Beacon
\* is cut out and the loop ends
RECURSIVE removeRefFrom(_, _, _)
removeRefFrom(refs, i, beacon) ==
    IF i > Len(refs)
    THEN refs
    ELSE IF refs[i] # beacon
         THEN removeRefFrom(refs, i + 1, beacon)
         ELSE SubSeq(refs, 1, i - 1) \o SubSeq(refs, i + 1, Len(refs))

\* func removeRef(refs models.MultipleRef, property *models.SingleRef)
removeRef(refs, beacon) == removeRefFrom(refs, 1, beacon)

\* func (m *Manager) removeReferenceFromClassProps: the property afterwards
\* and the failure, "" when it returns the properties; nil props become a
\* fresh map, the assignment of the missing entry panics on a nil map
removeReferenceFromClassProps(kind, refs, beacon) ==
    IF kind = "nilMap"
    THEN [failure |-> "panic", kind |-> kind, refs |-> refs]
    ELSE IF kind \in {"noProperties", "absent"}
         THEN [failure |-> "", kind |-> "list", refs |-> removeRef(<< >>, beacon)]
         ELSE IF kind # "list"
              THEN [failure |-> "expected list for reference props", kind |-> kind, refs |-> refs]
              ELSE [failure |-> "", kind |-> "list", refs |-> removeRef(refs, beacon)]

\* the order of the steps of the two entry points
FirstStep(path) == IF path = "new" THEN "fetch" ELSE "authorize"
StepAfter(path, pc) ==
    IF path = "new"
    THEN CASE pc = "fetch" -> "authorize"
           [] pc = "authorize" -> "lock"
           [] pc = "lock" -> "validate"
           [] pc = "validate" -> "remove"
           [] pc = "remove" -> "put"
    ELSE CASE pc = "authorize" -> "lock"
           [] pc = "lock" -> "fetch"
           [] pc = "fetch" -> "validate"
           [] pc = "validate" -> "remove"
           [] pc = "remove" -> "put"

\* the request after a return that leaves the schema lock held
ReturnedKeepLock(d, err) == [d EXCEPT !.pc = "returned", !.ret = err]

\* the request after a return: the deferred unlock runs when the lock was
\* taken
Returned(d, err) == [d EXCEPT !.pc = "returned", !.ret = err, !.locked = FALSE]

\* the request after a step that succeeded
Passed(d) == [d EXCEPT !.pc = StepAfter(d.path, d.pc), !.passed = @ \cup {d.pc}]

\* One request: path "new" is Manager.DeleteObjectReference, path
\* "deprecated" is Manager.deleteObjectReferenceDeprecated.  kind and refs
\* are the property of the fetched object, orig its value when fetched,
\* puts the number of PutObject calls, updated whether LastUpdateTimeUnix
\* was assigned, passed the steps that succeeded, ret the returned error
\* ("pending" before the return, "nil" for no error, "panic" when the call
\* ends in a panic).
InitDel ==
    /\ \E path \in {"new", "deprecated"}, dep \in BOOLEAN, kind \in Kinds,
          refs \in RefLists(MaxRefs), ref \in Beacons :
           /\ path = "deprecated" => ~ dep
           /\ kind # "list" => refs = << >>
           /\ del = [path |-> path,
                     deprecatedEndpoint |-> dep,
                     pc |-> FirstStep(path),
                     kind |-> kind,
                     refs |-> refs,
                     orig |-> refs,
                     ref |-> ref,
                     locked |-> FALSE,
                     puts |-> 0,
                     updated |-> FALSE,
                     ok |-> FALSE,
                     passed |-> {},
                     ret |-> "pending"]
    /\ NoList
    /\ pair = Idle
    /\ agg = Idle
    /\ aggLog = Idle

DelFrame == UNCHANGED <<listVars, pairVars, aggVars>>

\* m.getObjectFromRepo
GetObjectFromRepo(outcome) ==
    /\ del.pc = "fetch"
    /\ del' = IF outcome = "found"
              THEN Passed(del)
              ELSE Returned(del, IF del.path = "new" THEN "source object" ELSE outcome)
    /\ DelFrame

\* m.authorizer.Authorize
Authorize(allowed) ==
    /\ del.pc = "authorize"
    /\ del' = IF allowed THEN Passed(del) ELSE Returned(del, "forbidden")
    /\ DelFrame

\* m.locks.LockSchema and defer unlock()
LockSchema(acquired) ==
    /\ del.pc = "lock"
    /\ del' = IF acquired
              THEN [Passed(del) EXCEPT !.locked = TRUE]
              ELSE Returned(del, "cannot lock")
    /\ DelFrame

\* input.validate (new) / m.validateCanModifyReference (deprecated)
Validate(valid) ==
    /\ del.pc = "validate"
    /\ del' = IF valid
              THEN Passed(del)
              ELSE Returned(del, IF del.path = "deprecated" THEN "cannot modify"
                                 ELSE IF del.deprecatedEndpoint THEN "bad inputs deprecated"
                                 ELSE "bad inputs")
    /\ DelFrame

\* removeReference (new) / m.removeReferenceFromClassProps (deprecated)
Remove ==
    /\ del.pc = "remove"
    /\ IF del.path = "new"
       THEN LET res == removeReference(del.kind, del.refs, del.ref)
                d == [del EXCEPT !.kind = res.kind, !.refs = res.refs, !.ok = res.ok]
            IN  del' = IF res.panic
                       THEN Returned(d, "panic")
                       ELSE IF res.errmsg # ""
                       THEN Returned(d, res.errmsg)
                       ELSE IF ~ res.ok
                            THEN Returned([d EXCEPT !.passed = @ \cup {"remove"}], "nil")
                            ELSE Passed(d)
       ELSE LET res == removeReferenceFromClassProps(del.kind, del.refs, del.ref)
                d == [del EXCEPT !.kind = res.kind, !.refs = res.refs]
            IN  del' = IF res.failure # "" THEN Returned(d, res.failure) ELSE Passed(d)
    /\ DelFrame

\* obj.LastUpdateTimeUnix = m.timeSource.Now(); m.vectorRepo.PutObject
PutObject(stored) ==
    /\ del.pc = "put"
    /\ del' = Returned([del EXCEPT !.updated = TRUE, !.puts = @ + 1],
                       IF stored THEN "nil" ELSE "repo.putobject")
    /\ DelFrame

NextDel ==
    \/ \E outcome \in {"found", "not found", "error"} : GetObjectFromRepo(outcome)
    \/ \E allowed \in BOOLEAN : Authorize(allowed)
    \/ \E acquired \in BOOLEAN : LockSchema(acquired)
    \/ \E valid \in BOOLEAN : Validate(valid)
    \/ Remove
    \/ \E stored \in BOOLEAN : PutObject(stored)

SpecDel == InitDel /\ [][NextDel]_vars

TypeOK ==
    /\ set \in Seq(0 .. MarkerMod - 1)
    /\ freed \in BOOLEAN
    /\ panicked \in {NoPanic, IndexOutOfRange, LenOutOfRange}
    /\ resetCount \in Nat
    /\ usedAfterFree \in 0 .. MaxUseAfterFree
    /\ visitedSince \subseteq Nodes

\* ------------------------------------------------------------ properties
\* a call of the named operation has just completed on an instance that was
\* never freed
Completed(op) == last.op = op /\ panicked = NoPanic /\ ~ freed

\* what a Visited(node) call returns when it returns (FALSE when it panics)
VisitedReturnsTrue(s, node) == ~ VisitedPanics(s, node) /\ VisitedValue(s, node)

\* the number of stamp slots held by the slice
SlotCount(s) == IF Len(s) = 0 THEN 0 ELSE Len(s) - 1

\* C1: immediately after Reset returns, Visited(n) is false for every n in
\* [0, Len()), whatever was visited before and also on the reset that wraps
\* the marker from 255 to 0.
C1_ResetClearsAll ==
    Completed("Reset") => \A n \in 0 .. (ListLen(set) - 1) : ~ VisitedValue(set, n)

C1_Witness ==
    /\ Completed("Reset")
    /\ Len(set) > 1
    /\ Marker(set) = 2
    /\ set[2] = 1

\* C2 (as claimed): for every node id n, a Visited(n) call made immediately
\* after Visit(n) returns true.
C2_VisitThenVisited ==
    Completed("Visit") => VisitedReturnsTrue(set, last.node)

\* C3 (as claimed): Visit(n) does not change the result of Visited(m) for
\* any m # n.
C3_VisitFrame ==
    [][(last'.op = "Visit" /\ panicked' = NoPanic /\ ~ freed)
         => \A m \in Nodes \ {last'.node} :
                VisitedReturnsTrue(set', m) = VisitedReturnsTrue(set, m)]_vars

\* C4: immediately after NewList(size), Len() equals size and Visited(n) is
\* false for every node id n, below size or not.
C4_FreshList ==
    Completed("NewList") =>
        /\ ListLen(set) = last.node
        /\ \A n \in Nodes \cup (0 .. last.node) : ~ VisitedReturnsTrue(set, n)

C4_Witness == Completed("NewList") /\ last.node >= 1 /\ Len(set) = last.node + 1

\* C5: between operations on a constructed instance the marker lies in
\* 1..255, so a slot holding 0 is never reported as visited.
C5_MarkerNonZero ==
    (panicked = NoPanic /\ ~ freed) =>
        /\ Len(set) >= 1
        /\ Marker(set) \in 1 .. (MarkerMod - 1)
        /\ \A n \in SmallNodes \cup EdgeNodes :
               (n + 1 < Len(set) /\ set[n + 2] = 0) => ~ VisitedValue(set, n)

C5_Witness ==
    /\ Completed("Visit")
    /\ Len(set) >= GrowthMargin
    /\ Marker(set) = MarkerMod - 1
    /\ set[2] = MarkerMod - 1

\* C6 (as claimed): Len() never decreases across Visit, Visited and Reset
\* calls with arbitrary node ids.
C6_LenMonotonic ==
    [][(last'.op \in {"Visit", "Visited", "Reset"} /\ panicked' = NoPanic /\ ~ freed)
         => ~ U64Less(ListLen(set'), ListLen(set))]_vars

\* C7 (as claimed): for every node id of the 64-bit id type Visit(n)
\* completes without failure, makes n addressable and leaves Visited(n)
\* true; Visited(n) completes without failure.  A failed allocation, the
\* one fatal condition the design allows, is not counted as a failure here.
C7_TotalOverIds ==
    /\ (last.op = "Visit" /\ ~ freed /\ panicked # LenOutOfRange) =>
           /\ panicked = NoPanic
           /\ U64Less(last.node, ListLen(set))
           /\ VisitedReturnsTrue(set, last.node)
    /\ (last.op = "Visited" /\ ~ freed) => panicked = NoPanic

\* C8: Visited(n) changes nothing and returns (stamp of n = marker) when n
\* is below Len(), false otherwise.
C8_VisitedPure ==
    [][(last'.op = "Visited" /\ panicked = NoPanic /\ ~ freed) =>
          /\ set' = set
          /\ panicked' = NoPanic
          /\ last'.result =
                 IF last'.node >= 0 /\ last'.node < SlotCount(set)
                 THEN set[last'.node + 2] = set[1]
                 ELSE FALSE]_vars

C8_Witness == Completed("Visited") /\ last.result /\ Marker(set) = MarkerMod - 1

\* C9 (as claimed): Len() is the number of stamp slots held, also once
\* Free has discarded the storage.
C9_LenIsSlotCount ==
    (last.op = "Len" /\ panicked = NoPanic) => last.node = SlotCount(set)

\* C10: Reset zeroes the stamps exactly when the marker was 255 before the
\* call, which is the 255th reset since the previous full clear (or since
\* construction); every other Reset adds 1 to the marker and changes no
\* stamp; no Reset changes the capacity.
C10_ResetClearPeriod ==
    [][(last'.op = "Reset" /\ panicked' = NoPanic /\ ~ freed) =>
          /\ Len(set') = Len(set)
          /\ IF Marker(set) = MarkerMod - 1
             THEN /\ resetCount + 1 = MarkerMod - 1
                  /\ Marker(set') = 1
                  /\ \A i \in 2 .. Len(set') : set'[i] = 0
             ELSE /\ resetCount + 1 < MarkerMod - 1
                  /\ set' = [set EXCEPT ![1] = set[1] + 1]]_vars

C10_Witness ==
    /\ Completed("Reset")
    /\ Marker(set) = 1
    /\ resetCount = 0
    /\ Len(set) >= GrowthMargin

\* C11 (as claimed): Visit(n) with n >= Len() allocates n + GrowthMargin
\* slots, after which n is below Len(); Visit(n) with n < Len() leaves the
\* length unchanged.
C11_VisitGrowth ==
    [][(last'.op = "Visit" /\ panicked' = NoPanic /\ ~ freed) =>
          IF VisitGrows(set, last'.node)
          THEN /\ Len(set') = last'.node + GrowthMargin
               /\ U64Less(last'.node, ListLen(set'))
          ELSE Len(set') = Len(set)]_vars

\* C13 (as claimed): after Free no Visit, Visited or Reset call completes
\* normally, and none re-creates the backing storage.
C13_FreeIsTerminal ==
    (freed /\ last.op \in {"Visit", "Visited", "Reset"}) =>
        /\ panicked # NoPanic
        /\ set = << >>

\* C14 (as claimed): Visited(n) returns true exactly when Visit(n) has been
\* called since the most recent Reset (or since construction).
C14_RefinesSet ==
    (panicked = NoPanic /\ ~ freed) =>
        \A n \in Nodes : VisitedReturnsTrue(set, n) <=> n \in visitedSince

\* what caller t gets from Visited(n)
Sees(t, n) == VisitedReturnsTrue(pair.hs[t], n)

\* C12: on one shared instance there is no per-caller state: every caller
\* sees exactly the ids visited by anyone since the last Reset by anyone
\* (so B's Reset between A's Visit(n) and A's Visited(n) makes A read
\* false); with private instances every caller sees exactly the ids it
\* visited since its own last Reset, whatever the other caller does.
C12_SharedVersusPrivate ==
    /\ pair.mode = "shared" =>
           \A t \in Callers, n \in PairNodes : Sees(t, n) <=> n \in pair.joint
    /\ pair.mode = "private" =>
           \A t \in Callers, n \in PairNodes : Sees(t, n) <=> n \in pair.mine[t]

C12_Witness ==
    /\ pair.mode = "shared"
    /\ pair.prev.who = 2 /\ pair.prev.op = "Reset"
    /\ pair.last.who = 1 /\ pair.last.op = "Visited"
    /\ pair.last.node \in pair.mine[1]
    /\ ~ pair.last.result

\* the two copies report the same Len() and the same Visited(n)
CopiesAgree ==
    /\ ListLen(pair.hs[1]) = ListLen(pair.hs[2])
    /\ \A n \in PairNodes : Sees(1, n) <=> Sees(2, n)

Smallest(T) == CHOOSE ts \in T : \A other \in T : ts.epochNano <= other.epochNano
Largest(T) == CHOOSE ts \in T : \A other \in T : ts.epochNano >= other.epochNano

\* C16 (as claimed): once something was added, Min() is the string of a
\* timestamp with the smallest epochNano added and Max() the string of one
\* with the largest, for negative, zero and positive epoch values.
C16_MinMax ==
    (aggLog # Idle /\ aggLog.added # {}) =>
        /\ \E ts \in aggLog.added :
               ts.epochNano = Smallest(aggLog.added).epochNano /\ Min(agg) = ts.rfc3339
        /\ \E ts \in aggLog.added :
               ts.epochNano = Largest(aggLog.added).epochNano /\ Max(agg) = ts.rfc3339

\* the rows are in ascending timestamp order
Ascending(rows) == \A i, j \in 1 .. Len(rows) : i < j => rows[i][1] <= rows[j][1]

\* the multiset of the rows written out: each value as often as its count
RECURSIVE Expand(_)
Expand(rows) ==
    IF rows = << >>
    THEN << >>
    ELSE [i \in 1 .. rows[1][2] |-> rows[1][1]] \o Expand(Tail(rows))

\* C17: for an aggregator built from addRow calls in ascending order,
\* Median() is the value at 1-based rank ceil(count/2) of the rows written
\* out, and Count() is the sum of the row counts; rows with count 0 change
\* neither.
C17_MedianOfRows ==
    (aggLog # Idle /\ aggLog.onlyRows /\ Ascending(aggLog.rows) /\ Len(Expand(aggLog.rows)) > 0) =>
        /\ Count(agg) = Len(Expand(aggLog.rows))
        /\ Median(agg) = newTimestamp(Expand(aggLog.rows)[(Count(agg) + 1) \div 2]).rfc3339

C17_Witness ==
    /\ aggLog # Idle
    /\ aggLog.onlyRows
    /\ Ascending(aggLog.rows)
    /\ Len(aggLog.rows) = 3
    /\ aggLog.rows[2][2] = 0
    /\ Count(agg) = 4
    /\ Len(agg.pairs) = 2
    /\ Median(agg) = Min(agg)
    /\ Median(agg) # Max(agg)

\* removeReference has run on the request of the new entry point
RemoveRan == del # Idle /\ del.path = "new" /\ del.pc \in {"put", "returned"} /\ "validate" \in del.passed

\* the number of entries of refs with the Beacon
Matches(refs, beacon) == Cardinality({i \in 1 .. Len(refs) : refs[i] = beacon})

\* what removeReference is claimed to do with the property
RemoveReferenceContract ==
    /\ del.kind = "list" =>
           /\ del.refs = SelectSeq(del.orig, LAMBDA r : r # del.ref)
           /\ del.ok <=> Matches(del.orig, del.ref) > 0
           /\ del.ret # "source list is not well formed"
    /\ del.kind \in {"noProperties", "nilMap", "absent", "nilValue"} =>
           /\ ~ del.ok
           /\ del.ret = "nil"
           /\ del.refs = del.orig

\* the same, except that an object without a properties map makes
\* removeReference panic
RemoveReferenceOrPanic ==
    /\ del.kind = "list" =>
           /\ del.refs = SelectSeq(del.orig, LAMBDA r : r # del.ref)
           /\ del.ok <=> Matches(del.orig, del.ref) > 0
           /\ del.ret # "source list is not well formed"
    /\ del.kind \in {"nilMap", "absent", "nilValue"} =>
           /\ ~ del.ok
           /\ del.ret = "nil"
           /\ del.refs = del.orig
    /\ del.kind = "noProperties" =>
           /\ ~ del.ok
           /\ del.ret = "panic"
           /\ del.refs = del.orig

DelReturned == del # Idle /\ del.path = "new" /\ del.pc = "returned"

\* C19 (as claimed): PutObject is called at most once and only after every
\* earlier step succeeded and a reference was removed; on every error
\* return and when nothing matched there is no PutObject and no change of
\* LastUpdateTimeUnix; the lock is released on every return.
C19_PutOnlyOnSuccess ==
    (del # Idle /\ del.path = "new") =>
        /\ del.puts <= 1
        /\ del.puts = 1 => (del.ok /\ {"fetch", "authorize", "lock", "validate", "remove"} \subseteq del.passed)
        /\ (del.pc = "returned" /\ (del.ret # "nil" \/ ~ del.ok)) => (del.puts = 0 /\ ~ del.updated)
        /\ del.pc = "returned" => ~ del.locked

\* C19 (amended): as claimed, except that the error return of a failed
\* PutObject comes after the one PutObject call and after
\* LastUpdateTimeUnix was set on the fetched object.
C19_PutOnlyAfterRemoval ==
    (del # Idle /\ del.path = "new") =>
        /\ del.puts <= 1
        /\ del.puts = 1 => (del.ok /\ {"fetch", "authorize", "lock", "validate", "remove"} \subseteq del.passed)
        /\ (del.pc = "returned" /\ (del.ret \notin {"nil", "repo.putobject"} \/ ~ del.ok)) =>
               (del.puts = 0 /\ ~ del.updated)
        /\ (del.pc = "returned" /\ del.ret = "repo.putobject") => (del.puts = 1 /\ del.updated)
        /\ del.pc = "returned" => ~ del.locked
        /\ del.locked => "lock" \in del.passed

C19_Witness ==
    /\ DelReturned
    /\ del.ret = "repo.putobject"
    /\ del.puts = 1
    /\ "lock" \in del.passed
    /\ ~ del.locked

====
